---- MODULE Spec2Model ----
(***************************************************************************)
(* A model of utils.py of CycleGAN-PyTorch: the replay buffer, the linear  *)
(* learning-rate decay, the checkpoint weight loader, the resume loader,   *)
(* the checkpoint writer and the running-average meter.  The components    *)
(* share no state, so each has its own specification (SpecRB, SpecLR, ...) *)
(* in which the variables of the other components stay parked.             *)
(***************************************************************************)
EXTENDS Integers, Sequences, FiniteSets, TLC

\* ---------------------------------------------------------------- bounds
MaxSize == 2        \* largest max_size a ReplayBuffer is built with
MaxBatch == 2       \* longest batch given to push_and_pop
MaxSamples == 4     \* samples pushed over the life of one buffer
NumVals == 2        \* distinct tensor contents
MaxEpochs == 4      \* largest epochs / decay_epochs given to DecayLR
MaxOffset == 1      \* largest |offset| given to DecayLR
MaxUpdates == 3     \* AverageMeter.update calls between two resets
MaxN == 2           \* largest n given to AverageMeter.update
MaxParams == 2      \* most parameters of a target model
MaxSrc == 2         \* most entries of a source state dict
MaxSaves == 2       \* save_checkpoint calls over one run

Vals == 1..NumVals

VARIABLES
    \* ReplayBuffer
    rb_pc,          \* "new" | "idle" | "loop" | "failed"
    max_size,       \* self.max_size
    data,           \* self.data: sequence of tensor objects [id, val]
    batch,          \* push_and_pop's argument: the contents of its samples
    pos,            \* samples of batch consumed by the for loop
    element,        \* the loop variable after torch.unsqueeze
    to_return,      \* the local list to_return: sequence of tensor objects
    result,         \* the tensor push_and_pop returned last (its contents)
    serial,         \* samples processed so far (names the objects created)
    \* DecayLR
    lr_pc,          \* "new" | "ready" | "failed"
    epochs,         \* self.epochs
    offset,         \* self.offset
    decay_epochs,   \* self.decay_epochs
    lr_hist,        \* the latest two step calls, latest first: [epoch, val]
    \* AverageMeter
    am_val,         \* self.val
    am_avg,         \* self.avg, a rational <<numerator, denominator>>
    am_sum,         \* self.sum
    am_count,       \* self.count
    am_err,         \* what the latest call raised: "none" | "ZeroDivisionError"
    am_hist,        \* the update calls since the latest reset: [val, n]
    \* load_state_dict
    model,          \* the target's parameters: key -> [shape, val]
    old_model,      \* the target's parameters when the latest call began
    compile_mode,   \* the latest call's compile_mode
    state_dict,     \* the latest call's state_dict: sequence of [key, shape, val]
    ld_status,      \* "none" | "returned" | "RuntimeError"
    \* load_resume_state_dict (model is its first argument)
    ema_model,      \* <<>> for None, else <<parameters>>
    optimizer,      \* the optimizer's state
    scheduler,      \* <<>> for None, else <<the scheduler's state>>
    checkpoint,     \* what torch.load gave the latest call
    start_epoch,    \* the latest call's local start_epoch
    rs_ret,         \* the tuple the latest call returned, by component
    rs_reads,       \* the checkpoint fields the latest call subscripted
    rs_status,      \* "none" | "returned" | the exception raised
    \* save_checkpoint and make_directory
    fs,             \* the files: path -> contents, 0 where there is no file
    dirs,           \* the directories that exist
    sv_args,        \* the latest save_checkpoint call's arguments
    sv_log,         \* the writes the latest call made, in order
    sv_count,       \* save_checkpoint calls so far
    sv_status       \* "none" | "returned" | the exception raised

rbVars == <<rb_pc, max_size, data, batch, pos, element, to_return, result, serial>>
lrVars == <<lr_pc, epochs, offset, decay_epochs, lr_hist>>
amVars == <<am_val, am_avg, am_sum, am_count, am_err, am_hist>>
ldVars == <<model, old_model, compile_mode, state_dict, ld_status>>
rsVars == <<ema_model, optimizer, scheduler, checkpoint, start_epoch, rs_ret,
            rs_reads, rs_status>>

svVars == <<fs, dirs, sv_args, sv_log, sv_count, sv_status>>

vars == <<rbVars, lrVars, amVars, ldVars, rsVars, svVars>>

\* What each component leaves alone.
notRB == <<lrVars, amVars, ldVars, rsVars, svVars>>
notLR == <<rbVars, amVars, ldVars, rsVars, svVars>>
notAM == <<rbVars, lrVars, ldVars, rsVars, svVars>>
notLD == <<rbVars, lrVars, amVars, rsVars, svVars>>
notRS == <<rbVars, lrVars, amVars, svVars,
           old_model, compile_mode, state_dict, ld_status>>
notSV == <<rbVars, lrVars, amVars, ldVars, rsVars>>

\* Rationals as <<numerator, denominator>>, denominator non-zero: the model
\* of the floats Python's true division and float subtraction produce.
RatDiv(a, b) == IF b < 0 THEN <<-a, -b>> ELSE <<a, b>>
RatSub(p, q) == <<p[1] * q[2] - q[1] * p[2], p[2] * q[2]>>
RatOfInt(n) == <<n, 1>>
RatEq(p, q) == p[1] * q[2] = q[1] * p[2]
RatLess(p, q) == p[1] * q[2] < q[1] * p[2]
Max(a, b) == IF a >= b THEN a ELSE b

NoObj == [id |-> <<0, "none">>, val |-> 0]

\* ========================================================= ReplayBuffer

\* A tensor object: Python object identity and contents.  unsqueeze and
\* clone both make a new object; clone copies the contents.
Unsqueeze(v, n) == [id |-> <<n, "unsqueeze">>, val |-> v]
Clone(obj, n) == [id |-> <<n, "clone">>, val |-> obj.val]

\* torch.cat(to_return): a new tensor holding the contents, in list order.
Cat(objs) == [i \in 1..Len(objs) |-> objs[i].val]

EmptyDict == [k \in {} |-> 0]

LDParked ==
    /\ model = EmptyDict /\ old_model = EmptyDict /\ compile_mode = FALSE
    /\ state_dict = <<>> /\ ld_status = "none"

DirNames == {"samples", "results"}
FileNames == {"g.pth", "h.pth"}

\* os.path.join(dir, name)
Join(dir, name) == <<dir, name>>

Paths == {Join(d, n) : d \in DirNames, n \in FileNames}

NoArgs ==
    [state_dict |-> 0, file_name |-> "", samples_dir |-> "",
     results_dir |-> "", best_file_name |-> "", last_file_name |-> "",
     is_best |-> FALSE, is_last |-> FALSE]

SVParked ==
    /\ fs = [q \in Paths |-> 0] /\ dirs = {} /\ sv_args = NoArgs
    /\ sv_log = <<>> /\ sv_count = 0 /\ sv_status = "none"

NoCheckpoint ==
    [fields |-> {}, epoch |-> 0, state_dict |-> <<>>, ema_state_dict |-> <<>>,
     optimizer |-> 0, scheduler |-> 0]

RSParked ==
    /\ ema_model = <<>> /\ optimizer = 0 /\ scheduler = <<>>
    /\ checkpoint = NoCheckpoint /\ start_epoch = 0 /\ rs_ret = <<>>
    /\ rs_reads = {} /\ rs_status = "none"

LRParked ==
    /\ lr_pc = "new" /\ epochs = 0 /\ offset = 0 /\ decay_epochs = 0
    /\ lr_hist = <<>>

\* AverageMeter.__init__ ends with self.reset().
AMParked ==
    /\ am_val = 0 /\ am_avg = RatOfInt(0) /\ am_sum = 0 /\ am_count = 0
    /\ am_err = "none" /\ am_hist = <<>>

RBParked ==
    /\ rb_pc = "new" /\ max_size = 0 /\ data = <<>> /\ batch = <<>>
    /\ pos = 0 /\ element = NoObj /\ to_return = <<>> /\ result = <<>>
    /\ serial = 0

\* ReplayBuffer.__init__: the assert rejects max_size <= 0.
RBConstruct(m) ==
    /\ rb_pc = "new"
    /\ IF m > 0
         THEN rb_pc' = "idle" /\ max_size' = m
         ELSE rb_pc' = "failed" /\ UNCHANGED max_size
    /\ UNCHANGED <<data, batch, pos, element, to_return, result, serial>>
    /\ UNCHANGED notRB

\* push_and_pop entered: to_return = [] and the loop is about to start.
RBCall(b) ==
    /\ rb_pc = "idle"
    /\ serial + Len(b) <= MaxSamples
    /\ rb_pc' = "loop"
    /\ batch' = b
    /\ pos' = 0
    /\ to_return' = <<>>
    /\ UNCHANGED <<max_size, data, element, result, serial>>
    /\ UNCHANGED notRB

\* The three branches of one loop iteration, for the new sample el.
RBBelow(el) ==
    /\ Len(data) < max_size
    /\ data' = Append(data, el)
    /\ to_return' = Append(to_return, el)

\* Mutants of RBSwap: the slot is overwritten before it is cloned; the slot
\* is overwritten and then emitted itself; the new sample is appended
\* instead of replacing slot i.
RBSwapAfterOverwrite(el, i) ==
    /\ ~(Len(data) < max_size)
    /\ data' = [data EXCEPT ![i] = el]
    /\ to_return' = Append(to_return, Clone(data'[i], serial + 1))

RBSwapNoClone(el, i) ==
    /\ ~(Len(data) < max_size)
    /\ data' = [data EXCEPT ![i] = el]
    /\ to_return' = Append(to_return, data'[i])

RBSwapAppend(el, i) ==
    /\ ~(Len(data) < max_size)
    /\ to_return' = Append(to_return, Clone(data[i], serial + 1))
    /\ data' = Append(data, el)

RBSwap(el, i) ==
    /\ ~(Len(data) < max_size)
    /\ to_return' = Append(to_return, Clone(data[i], serial + 1))
    /\ data' = [data EXCEPT ![i] = el]

RBPass(el) ==
    /\ ~(Len(data) < max_size)
    /\ to_return' = Append(to_return, el)
    /\ UNCHANGED data

\* One iteration of the for loop.  random.uniform(0, 1) > 0.5 and
\* random.randint(0, max_size - 1) are free choices.
RBStep ==
    /\ rb_pc = "loop"
    /\ pos < Len(batch)
    /\ LET el == Unsqueeze(batch[pos + 1], serial + 1) IN
         /\ element' = el
         /\ \/ RBBelow(el)
            \/ \E i \in 1..max_size : RBSwap(el, i)
            \/ RBPass(el)
    /\ pos' = pos + 1
    /\ serial' = serial + 1
    /\ UNCHANGED <<rb_pc, max_size, batch, result>>
    /\ UNCHANGED notRB

\* The loop is exhausted: return torch.cat(to_return).
RBReturn ==
    /\ rb_pc = "loop"
    /\ pos = Len(batch)
    /\ rb_pc' = "idle"
    /\ result' = Cat(to_return)
    /\ UNCHANGED <<max_size, data, batch, pos, element, to_return, serial>>
    /\ UNCHANGED notRB

Batches == UNION {[1..n -> Vals] : n \in 1..MaxBatch}

NextRB ==
    \/ \E m \in 0..MaxSize : RBConstruct(m)
    \/ \E b \in Batches : RBCall(b)
    \/ RBStep
    \/ RBReturn

InitRB ==
    RBParked /\ LRParked /\ AMParked /\ LDParked /\ RSParked /\ SVParked

SpecRB == InitRB /\ [][NextRB]_vars

\* ------------------------------------------------- ReplayBuffer: claims

Stored(obj) == \E j \in 1..Len(data) : data[j].id = obj.id

\* C1: over any sequence of push_and_pop calls on batches of n >= 1 samples
\* to a buffer built with max_size >= 1, the buffer never holds more than
\* max_size samples (also between the samples of one batch), the i-th
\* emitted sample is the outcome of the i-th input sample (that sample
\* itself unless it is a clone taken from the buffer), and the call returns
\* exactly n samples, the emitted ones in order.
C1_CountAndCapacity ==
    rb_pc \in {"idle", "loop"} =>
        /\ max_size >= 1
        /\ Len(data) <= max_size
        /\ Len(to_return) = pos
        /\ pos <= Len(batch)
        /\ \A i \in 1..pos :
             /\ to_return[i].id[1] = serial - pos + i
             /\ to_return[i].id[2] = "unsqueeze" => to_return[i].val = batch[i]
        /\ rb_pc = "idle" =>
             /\ Len(result) = Len(batch)
             /\ \A i \in 1..Len(result) : result[i] = to_return[i].val

\* C1 witness: a batch longer than the capacity has been returned.
C1_Witness ==
    /\ rb_pc = "idle"
    /\ Len(batch) > max_size
    /\ Len(result) = Len(batch)
    /\ Len(data) = max_size

\* C9: each sample processed at capacity is either swapped (the emitted
\* sample has the contents slot i held, slot i then holds the new sample,
\* the other slots are unchanged) or passed (the new sample is emitted, the
\* buffer is unchanged), never both, and the length stays max_size; each
\* sample processed below capacity is appended and is itself emitted.
C9_StepOutcome ==
    [][(rb_pc = "loop" /\ pos' = pos + 1) =>
        LET el == element'
            e == to_return'[pos']
            swap(i) == /\ e.val = data[i].val
                       /\ Len(data') = Len(data)
                       /\ data'[i] = el
                       /\ \A j \in 1..Len(data) : j # i => data'[j] = data[j]
            swapped == \E i \in 1..max_size : swap(i)
            passed == e = el /\ data' = data
        IN  /\ el.val = batch[pos']
            /\ to_return' = Append(to_return, e)
            /\ IF Len(data) < max_size
                 THEN data' = Append(data, el) /\ e = el
                 ELSE /\ Len(data) = max_size
                      /\ swapped \/ passed
                      /\ ~(swapped /\ passed)
                      /\ Len(data') = max_size]_vars

\* C9 witness: a swap has just happened in a buffer of two slots or more.
C9_Witness ==
    /\ rb_pc = "loop"
    /\ pos > 0
    /\ max_size > 1
    /\ to_return[pos].id[2] = "clone"
    /\ Stored(element)

\* C10 as claimed: at the end of every per-sample step, on every branch,
\* the emitted sample is not the same object as any element of the buffer.
C10_Original ==
    (rb_pc = "loop" /\ pos > 0) => ~Stored(to_return[pos])

\* C10 as amended: a sample emitted on the swap or the pass branch is not
\* the same object as any element the buffer holds at the end of the step;
\* the sample emitted below capacity is the very object just appended.
C10_NoAliasAtCapacity ==
    [][(rb_pc = "loop" /\ pos' = pos + 1) =>
        LET e == to_return'[pos'] IN
        IF Len(data) < max_size
          THEN e.id = data'[Len(data')].id
          ELSE \A j \in 1..Len(data') : data'[j].id # e.id]_vars

\* C10 witness: a pass and a swap have both been emitted in one call.
C10_Witness ==
    /\ rb_pc = "loop"
    /\ \E i, j \in 1..pos :
         /\ to_return[i].id[2] = "clone"
         /\ to_return[j].id[2] = "unsqueeze" /\ ~Stored(to_return[j])

\* ============================================================== DecayLR

\* DecayLR.__init__: the assert rejects epochs - decay_epochs <= 0.
LRConstruct(e, o, d) ==
    /\ lr_pc = "new"
    /\ LET epoch_flag == e - d IN
         IF epoch_flag > 0
           THEN /\ lr_pc' = "ready"
                /\ epochs' = e /\ offset' = o /\ decay_epochs' = d
           ELSE /\ lr_pc' = "failed"
                /\ UNCHANGED <<epochs, offset, decay_epochs>>
    /\ UNCHANGED lr_hist
    /\ UNCHANGED notLR

\* Mutant of StepValue: the offset is forgotten.
StepValueNoOffset(epoch) ==
    RatSub(RatOfInt(1),
           RatDiv(Max(0, epoch - decay_epochs), epochs - decay_epochs))

\* 1.0 - max(0, epoch + self.offset - self.decay_epochs)
\*         / (self.epochs - self.decay_epochs)
StepValue(epoch) ==
    RatSub(RatOfInt(1),
           RatDiv(Max(0, epoch + offset - decay_epochs), epochs - decay_epochs))

\* DecayLR.step(epoch); the latest two calls are kept for the claims.
LRStep(epoch) ==
    /\ lr_pc = "ready"
    /\ lr_hist' = <<[epoch |-> epoch, val |-> StepValue(epoch)]>>
                  \o (IF lr_hist = <<>> THEN <<>> ELSE <<lr_hist[1]>>)
    /\ UNCHANGED <<lr_pc, epochs, offset, decay_epochs>>
    /\ UNCHANGED notLR

NextLR ==
    \/ \E e, d \in -1..MaxEpochs, o \in -MaxOffset..MaxOffset : LRConstruct(e, o, d)
    \/ \E epoch \in -1..(MaxEpochs + MaxOffset + 1) : LRStep(epoch)

InitLR ==
    RBParked /\ LRParked /\ AMParked /\ LDParked /\ RSParked /\ SVParked

SpecLR == InitLR /\ [][NextLR]_vars

\* ------------------------------------------------------ DecayLR: claims

\* C2: for a DecayLR built with decay_epochs < epochs, step(epoch) is 1
\* whenever epoch + offset <= decay_epochs, is 0 when epoch + offset =
\* epochs, and step(epoch + 1) < step(epoch) whenever epoch + offset >=
\* decay_epochs.
C2_DecayShape ==
    lr_pc = "ready" =>
        /\ decay_epochs < epochs
        /\ \A i \in 1..Len(lr_hist) :
             LET h == lr_hist[i] IN
             /\ h.val[2] # 0
             /\ h.epoch + offset <= decay_epochs => RatEq(h.val, RatOfInt(1))
             /\ h.epoch + offset = epochs => h.val[1] = 0
        /\ (/\ Len(lr_hist) = 2
            /\ lr_hist[1].epoch = lr_hist[2].epoch + 1
            /\ lr_hist[2].epoch + offset >= decay_epochs)
           => RatLess(lr_hist[1].val, lr_hist[2].val)

\* C2 witness: step at the last epoch of a decay of two epochs or more,
\* right after step at the epoch before, with a non-zero offset.
C2_Witness ==
    /\ lr_pc = "ready"
    /\ Len(lr_hist) = 2
    /\ offset # 0
    /\ epochs - decay_epochs >= 2
    /\ lr_hist[1].epoch = lr_hist[2].epoch + 1
    /\ lr_hist[1].epoch + offset = epochs
    /\ lr_hist[1].val[1] = 0

\* ========================================================= AverageMeter

AMReset ==
    /\ am_val' = 0
    /\ am_avg' = RatOfInt(0)
    /\ am_sum' = 0
    /\ am_count' = 0
    /\ am_err' = "none"
    /\ am_hist' = <<>>
    /\ UNCHANGED notAM

\* Mutants of NewCount: the count is assigned, not accumulated; the count
\* goes up by one whatever n is.
NewCountAssigned(n) == n
NewCountByOne(n) == am_count + 1

\* self.count += n
NewCount(n) == am_count + n

\* AverageMeter.update(val, n): the division raises when count is 0, after
\* val, sum and count were assigned.
AMUpdate(v, n) ==
    /\ Len(am_hist) < MaxUpdates
    /\ am_val' = v
    /\ am_sum' = am_sum + v * n
    /\ am_count' = NewCount(n)
    /\ IF am_count' = 0
         THEN am_err' = "ZeroDivisionError" /\ UNCHANGED am_avg
         ELSE am_err' = "none" /\ am_avg' = RatDiv(am_sum', am_count')
    /\ am_hist' = Append(am_hist, [val |-> v, n |-> n])
    /\ UNCHANGED notAM

AMVals == {-1, 2, 4}

NextAM ==
    \/ AMReset
    \/ \E v \in AMVals, n \in -1..MaxN : AMUpdate(v, n)

InitAM ==
    RBParked /\ LRParked /\ AMParked /\ LDParked /\ RSParked /\ SVParked

SpecAM == InitAM /\ [][NextAM]_vars

\* ------------------------------------------------- AverageMeter: claims

RECURSIVE SumN(_, _)
SumN(h, k) == IF k = 0 THEN 0 ELSE SumN(h, k - 1) + h[k].n

RECURSIVE SumValN(_, _)
SumValN(h, k) == IF k = 0 THEN 0 ELSE SumValN(h, k - 1) + h[k].val * h[k].n

\* Every update since the latest reset succeeded: no prefix of the calls
\* left the count at 0.
AllSucceeded == \A k \in 1..Len(am_hist) : SumN(am_hist, k) # 0

\* C5: after reset() and successful update(val, n) calls, sum is the sum of
\* val*n and count the sum of n over the updates since the latest reset,
\* val is the latest val, avg is sum/count; right after reset() all four
\* are 0; update(4,1) then update(2,1) gives avg 3, sum 6, count 2.
C5_RunningAverage ==
    AllSucceeded =>
        /\ am_err = "none"
        /\ am_sum = SumValN(am_hist, Len(am_hist))
        /\ am_count = SumN(am_hist, Len(am_hist))
        /\ am_hist # <<>> =>
             /\ am_val = am_hist[Len(am_hist)].val
             /\ am_avg[2] # 0
             /\ am_avg[1] * am_count = am_sum * am_avg[2]
        /\ am_hist = <<>> =>
             am_val = 0 /\ am_avg = RatOfInt(0) /\ am_sum = 0 /\ am_count = 0
        /\ am_hist = <<[val |-> 4, n |-> 1], [val |-> 2, n |-> 1]>> =>
             /\ RatEq(am_avg, RatOfInt(3))
             /\ am_sum = 6
             /\ am_count = 2

\* C5 witness: update(4,1) then update(2,1) have run.
C5_Witness ==
    /\ am_hist = <<[val |-> 4, n |-> 1], [val |-> 2, n |-> 1]>>
    /\ am_sum = 6

\* C6 as claimed: update raises exactly when count is 0 after n was added,
\* and then every update since the latest reset was called with n = 0.
C6_Original ==
    /\ am_err = "ZeroDivisionError" <=> (am_hist # <<>> /\ am_count = 0)
    /\ am_err = "ZeroDivisionError" =>
         \A k \in 1..Len(am_hist) : am_hist[k].n = 0

\* C6 as amended: update raises exactly when count is 0 after n was added,
\* and when every update since the latest reset was called with n >= 0,
\* that happens only if every one of them was called with n = 0.
C6_ZeroCount ==
    /\ am_err = "ZeroDivisionError" <=> (am_hist # <<>> /\ am_count = 0)
    /\ (/\ am_err = "ZeroDivisionError"
        /\ \A k \in 1..Len(am_hist) : am_hist[k].n >= 0)
       => \A k \in 1..Len(am_hist) : am_hist[k].n = 0

\* C6 witness: the second of two update(val, 0) calls has raised.
C6_Witness ==
    /\ am_err = "ZeroDivisionError"
    /\ Len(am_hist) >= 2
    /\ \A k \in 1..Len(am_hist) : am_hist[k].n = 0

\* ====================================================== load_state_dict

\* A key is the sequence of its dot-separated segments: "_orig_mod.a" is
\* <<"_orig_mod", "a">> and "" is <<"">>.
compile_state == "_orig_mod"

\* k.split(".")[0]
FirstSegment(k) == k[1]

\* k[10:] for a key whose first segment is the 9 characters of compile_state:
\* the segment and the dot after it go; of the bare "_orig_mod" "" is left.
Slice10(k) == IF Len(k) > 1 THEN Tail(k) ELSE <<"">>

\* Mutant of Mismatch: the raise never happens.
MismatchNever(cm, k) == FALSE

\* The condition of the raise in the loop.
Mismatch(cm, k) == cm /\ FirstSegment(k) # compile_state

\* The name a source key is stored under in new_state_dict.
Rename(cm, k) ==
    IF cm /\ FirstSegment(k) # compile_state
      THEN <<compile_state>> \o k
      ELSE IF ~cm /\ FirstSegment(k) = compile_state
             THEN Slice10(k)
             ELSE k

\* new_state_dict[name] = v
Put(d, name, v) ==
    [k \in DOMAIN d \cup {name} |-> IF k = name THEN v ELSE d[k]]

\* The loop over state_dict.items() from entry i on: the renamed dictionary,
\* or the raise at the first key without the marker under compile_mode.
RECURSIVE RenameAll(_, _, _, _)
RenameAll(cm, sd, i, acc) ==
    IF i > Len(sd)
      THEN [raised |-> FALSE, dict |-> acc]
      ELSE IF Mismatch(cm, sd[i].key)
             THEN [raised |-> TRUE, dict |-> acc]
             ELSE RenameAll(cm, sd, i + 1,
                            Put(acc, Rename(cm, sd[i].key), sd[i]))

\* Mutant of Kept: the shapes are not compared.
KeptAnyShape(msd, k, v) == k \in DOMAIN msd

\* The filter of the dictionary comprehension.
Kept(msd, k, v) == k \in DOMAIN msd /\ v.shape = msd[k].shape

\* model_state_dict.update(new_state_dict) over the kept entries, then
\* model.load_state_dict(model_state_dict).
Merged(msd, d) ==
    [k \in DOMAIN msd |->
        IF k \in DOMAIN d /\ Kept(msd, k, d[k])
          THEN [shape |-> d[k].shape, val |-> d[k].val]
          ELSE msd[k]]

\* load_state_dict(model, compile_mode, state_dict)
LoadStateDict(m, cm, sd) ==
    LET r == RenameAll(cm, sd, 1, EmptyDict) IN
    IF r.raised
      THEN [status |-> "RuntimeError", model |-> m]
      ELSE [status |-> "returned", model |-> Merged(m, r.dict)]

\* A call of load_state_dict on the current model; its arguments and the
\* model it began with are kept until the caller moves on.
LDCall(cm, sd) ==
    /\ ld_status = "none"
    /\ LET r == LoadStateDict(model, cm, sd) IN
         /\ model' = r.model
         /\ ld_status' = r.status
    /\ old_model' = model
    /\ compile_mode' = cm
    /\ state_dict' = sd
    /\ UNCHANGED notLD

\* The caller moves on with the model as the call left it.
LDDone ==
    /\ ld_status # "none"
    /\ ld_status' = "none"
    /\ old_model' = model
    /\ compile_mode' = FALSE
    /\ state_dict' = <<>>
    /\ UNCHANGED model
    /\ UNCHANGED notLD

Shapes == {3, 5}
TargetShapes == {3}
TargetKeys == {<<"a">>, <<"b">>, <<"_orig_mod", "a">>, <<"_orig_mod">>}
SourceKeys == {<<"a">>, <<"b">>, <<"_orig_mod", "a">>, <<"_orig_mod">>}

\* The models a call can be given: up to MaxParams parameters, all 0.
TargetModels ==
    UNION {[ks -> [shape : TargetShapes, val : {0}]] :
             ks \in {x \in SUBSET TargetKeys : Cardinality(x) \in 1..MaxParams}}

\* The state dicts a call can be given: distinct keys, in any order; the
\* i-th tensor holds i, so that every tensor of a state dict is told apart.
SourceDicts ==
    UNION {{sd \in [1..n -> [key : SourceKeys, shape : Shapes, val : 1..MaxSrc]] :
              /\ \A i \in 1..n : sd[i].val = i
              /\ \A i, j \in 1..n : i # j => sd[i].key # sd[j].key}
           : n \in 0..MaxSrc}

NextLD ==
    \/ \E cm \in BOOLEAN, sd \in SourceDicts : LDCall(cm, sd)
    \/ LDDone

InitLD ==
    /\ RBParked /\ LRParked /\ AMParked /\ RSParked /\ SVParked
    /\ model \in TargetModels /\ old_model = model /\ compile_mode = FALSE
    /\ state_dict = <<>> /\ ld_status = "none"

SpecLD == InitLD /\ [][NextLD]_vars

\* ---------------------------------------------- load_state_dict: claims

\* The largest of a non-empty set of positions.
MaxOf(S) == CHOOSE i \in S : \A j \in S : j <= i

\* The renaming as C3 words it: a leading "_orig_mod." segment is stripped.
StripLeadingSegment(k) ==
    IF Len(k) > 1 /\ k[1] = "_orig_mod" THEN Tail(k) ELSE k

\* The renaming by characters: the first 10 characters go whenever the first
\* segment is "_orig_mod", which leaves "" of the bare key "_orig_mod".
StripTenCharacters(k) ==
    IF k[1] = "_orig_mod"
      THEN (IF Len(k) > 1 THEN Tail(k) ELSE <<"">>)
      ELSE k

\* C3 as claimed: after load_state_dict(model, False, state_dict) returns,
\* the target has the keys it had, and every target key k holds the value
\* of a source entry whose renamed key is k and whose shape is the target's
\* shape for k, when there is such an entry, and its old value otherwise.
C3_Original ==
    (ld_status = "returned" /\ ~compile_mode) =>
        /\ DOMAIN model = DOMAIN old_model
        /\ \A k \in DOMAIN model :
             LET M == {i \in 1..Len(state_dict) :
                         /\ StripLeadingSegment(state_dict[i].key) = k
                         /\ state_dict[i].shape = old_model[k].shape}
             IN  IF M # {}
                   THEN \E i \in M : model[k] = [shape |-> old_model[k].shape,
                                                 val |-> state_dict[i].val]
                   ELSE model[k] = old_model[k]

\* C3 as amended: after load_state_dict(model, False, state_dict) returns,
\* the target has the keys it had, and every target key k holds the value
\* of the last source entry whose renamed key (the first 10 characters
\* removed when the first segment is "_orig_mod") is k, when there is such
\* an entry and the shape of that last one is the target's shape for k, and
\* its old value otherwise.
C3_LastRenamedWins ==
    (ld_status = "returned" /\ ~compile_mode) =>
        /\ DOMAIN model = DOMAIN old_model
        /\ \A k \in DOMAIN model :
             LET R == {i \in 1..Len(state_dict) :
                         StripTenCharacters(state_dict[i].key) = k}
             IN  IF R # {} /\ state_dict[MaxOf(R)].shape = old_model[k].shape
                   THEN model[k] = [shape |-> old_model[k].shape,
                                    val |-> state_dict[MaxOf(R)].val]
                   ELSE model[k] = old_model[k]

\* C3 witness: two source entries were renamed to one target key and the
\* later one was loaded, while another source entry was dropped for its
\* shape.
C3_Witness ==
    /\ ld_status = "returned" /\ ~compile_mode
    /\ \E k \in DOMAIN model : \E i, j \in 1..Len(state_dict) :
         /\ i < j
         /\ StripTenCharacters(state_dict[i].key) = k
         /\ StripTenCharacters(state_dict[j].key) = k
         /\ model[k].val = state_dict[j].val
         /\ old_model[k].val # state_dict[j].val

\* C4: when compile_mode is True and some source key's first segment is
\* not "_orig_mod", the call raises RuntimeError and the target's
\* parameters are what they were, whatever the other keys and their order.
C4_MismatchRaises ==
    (/\ ld_status # "none"
     /\ compile_mode
     /\ \E i \in 1..Len(state_dict) : state_dict[i].key[1] # "_orig_mod")
    => (ld_status = "RuntimeError" /\ model = old_model)

\* C4 witness: the call raised on its second key, after a key with the
\* marker that the target holds.
C4_Witness ==
    /\ ld_status = "RuntimeError"
    /\ compile_mode
    /\ Len(state_dict) >= 2
    /\ state_dict[1].key[1] = "_orig_mod"
    /\ Len(state_dict[1].key) > 1
    /\ state_dict[1].key \in DOMAIN model
    /\ state_dict[1].shape = model[state_dict[1].key].shape
    /\ state_dict[2].key[1] # "_orig_mod"

\* =============================================== load_resume_state_dict

\* Mutant of ResultTuple: the scheduler is returned whether one was
\* supplied or not.
ResultTupleOfFive(sched) ==
    <<"model", "ema_model", "start_epoch", "optimizer", "scheduler">>

\* The two return statements.
ResultTuple(sched) ==
    IF sched # <<>>
      THEN <<"model", "ema_model", "start_epoch", "optimizer", "scheduler">>
      ELSE <<"model", "ema_model", "start_epoch", "optimizer">>

\* optimizer.load_state_dict(checkpoint["optimizer"])
RestoredOptimizer(opt, ckpt) == ckpt.optimizer

\* load_resume_state_dict from the point torch.load has returned ckpt: what
\* the call leaves in each object, what it raised or returned, and the
\* checkpoint fields it subscripted on the way.
LoadResumeStateDict(m, ema, opt, sched, cs, ckpt) ==
    LET r1 == LoadStateDict(m, cs, ckpt.state_dict)
        has_ema == "ema_state_dict" \in ckpt.fields
        r2 == IF ema = <<>>
                THEN [status |-> "AttributeError", model |-> EmptyDict]
                ELSE LoadStateDict(ema[1], cs, ckpt.ema_state_dict)
        reads2 == {"epoch", "state_dict"}
                    \cup (IF has_ema THEN {"ema_state_dict"} ELSE {})
        base == [status |-> "returned", model |-> m, ema_model |-> ema,
                 optimizer |-> opt, scheduler |-> sched,
                 start_epoch |-> ckpt.epoch, ret |-> <<>>, reads |-> reads2]
    IN  IF r1.status # "returned"
          THEN [base EXCEPT !.status = r1.status]
        ELSE IF has_ema /\ r2.status # "returned"
          THEN [base EXCEPT !.status = r2.status, !.model = r1.model]
        ELSE
          LET loaded == [base EXCEPT
                           !.model = r1.model,
                           !.ema_model = IF has_ema THEN <<r2.model>> ELSE ema,
                           !.optimizer = RestoredOptimizer(opt, ckpt),
                           !.reads = reads2 \cup {"optimizer"}]
          IN  IF sched # <<>>
                THEN IF "scheduler" \in ckpt.fields
                       THEN [loaded EXCEPT
                               !.scheduler = <<ckpt.scheduler>>,
                               !.reads = @ \cup {"scheduler"},
                               !.ret = ResultTuple(sched)]
                       ELSE [loaded EXCEPT
                               !.status = "KeyError",
                               !.reads = @ \cup {"scheduler"}]
                ELSE [loaded EXCEPT !.ret = ResultTuple(sched)]

RSCall(cs, ckpt) ==
    /\ rs_status = "none"
    /\ LET r == LoadResumeStateDict(model, ema_model, optimizer, scheduler,
                                    cs, ckpt) IN
         /\ model' = r.model
         /\ ema_model' = r.ema_model
         /\ optimizer' = r.optimizer
         /\ scheduler' = r.scheduler
         /\ start_epoch' = r.start_epoch
         /\ rs_ret' = r.ret
         /\ rs_reads' = r.reads
         /\ rs_status' = r.status
    /\ checkpoint' = ckpt
    /\ UNCHANGED notRS

\* The caller moves on with the objects as the call left them.
RSDone ==
    /\ rs_status # "none"
    /\ rs_status' = "none"
    /\ checkpoint' = NoCheckpoint
    /\ rs_ret' = <<>>
    /\ rs_reads' = {}
    /\ start_epoch' = 0
    /\ UNCHANGED <<model, ema_model, optimizer, scheduler>>
    /\ UNCHANGED notRS

\* The resume checkpoints: epoch, state_dict and optimizer always there,
\* ema_state_dict and scheduler optional.
CkptKeys == {<<"a">>, <<"_orig_mod", "a">>}
CkptDicts ==
    {sd \in SourceDicts :
       /\ Len(sd) <= 1
       /\ \A i \in 1..Len(sd) :
            sd[i].key \in CkptKeys /\ sd[i].shape \in TargetShapes}
CkptEpochs == {3, 7}
CkptStates == {1, 2}
Checkpoints ==
    {c \in [fields : SUBSET {"epoch", "state_dict", "ema_state_dict",
                             "optimizer", "scheduler"},
            epoch : CkptEpochs, state_dict : CkptDicts,
            ema_state_dict : CkptDicts, optimizer : CkptStates,
            scheduler : CkptStates \cup {0}] :
       /\ {"epoch", "state_dict", "optimizer"} \subseteq c.fields
       /\ "ema_state_dict" \notin c.fields => c.ema_state_dict = <<>>
       /\ c.scheduler = 0 <=> "scheduler" \notin c.fields}

ResumeModels ==
    {mm \in TargetModels : \E k \in CkptKeys : DOMAIN mm = {k}}

NextRS ==
    \/ \E cs \in BOOLEAN, ckpt \in Checkpoints : RSCall(cs, ckpt)
    \/ RSDone

InitRS ==
    /\ RBParked /\ LRParked /\ AMParked /\ SVParked
    /\ model \in ResumeModels /\ old_model = EmptyDict /\ compile_mode = FALSE
    /\ state_dict = <<>> /\ ld_status = "none"
    /\ ema_model \in {<<>>, <<model>>}
    /\ optimizer = 0
    /\ scheduler \in {<<>>, <<0>>}
    /\ checkpoint = NoCheckpoint /\ start_epoch = 0 /\ rs_ret = <<>>
    /\ rs_reads = {} /\ rs_status = "none"

SpecRS == InitRS /\ [][NextRS]_vars

\* --------------------------------------- load_resume_state_dict: claims

\* C7: a call that returns has restored the scheduler from the checkpoint
\* and returned (model, ema_model, start_epoch, optimizer, scheduler) if and
\* only if a scheduler was supplied; with no scheduler it has not read the
\* checkpoint's scheduler field and returned (model, ema_model, start_epoch,
\* optimizer); either way the optimizer holds the checkpoint's optimizer
\* state and start_epoch is the checkpoint's epoch.
C7_ResumeTuple ==
    rs_status = "returned" =>
        /\ scheduler # <<>> <=>
             /\ rs_ret = <<"model", "ema_model", "start_epoch", "optimizer",
                           "scheduler">>
             /\ "scheduler" \in rs_reads
             /\ scheduler = <<checkpoint.scheduler>>
        /\ scheduler = <<>> =>
             /\ rs_ret = <<"model", "ema_model", "start_epoch", "optimizer">>
             /\ "scheduler" \notin rs_reads
        /\ "optimizer" \in rs_reads
        /\ optimizer = checkpoint.optimizer
        /\ start_epoch = checkpoint.epoch

\* C7 witness: a call without a scheduler has returned from a checkpoint
\* that has a scheduler field, after loading the model and the EMA model.
C7_Witness ==
    /\ rs_status = "returned"
    /\ scheduler = <<>>
    /\ "scheduler" \in checkpoint.fields
    /\ "ema_state_dict" \in checkpoint.fields
    /\ Len(rs_ret) = 4
    /\ optimizer = 2

\* ================================== save_checkpoint and make_directory

\* make_directory(dir_path): os.makedirs unless the path exists.
MakeDirectory(d) ==
    /\ sv_status = "none"
    /\ dirs' = IF d \in dirs THEN dirs ELSE dirs \cup {d}
    /\ UNCHANGED <<fs, sv_args, sv_log, sv_count, sv_status>>
    /\ UNCHANGED notSV

\* shutil.copyfile(src, dst) on the files f: SameFileError when both name
\* one file, FileNotFoundError when dst's directory is missing, else dst
\* holds what src holds.
CopyFile(f, ds, src, dst) ==
    IF src = dst THEN [status |-> "SameFileError", fs |-> f]
    ELSE IF dst[1] \notin ds THEN [status |-> "FileNotFoundError", fs |-> f]
    ELSE [status |-> "returned", fs |-> [f EXCEPT ![dst] = f[src]]]

\* Mutant of CopiesLast: the second if is an elif.
CopiesLastElif(a) == ~a.is_best /\ a.is_last

\* The conditions of the two if statements.
CopiesBest(a) == a.is_best
CopiesLast(a) == a.is_last

WriteOp(op, src, dst) == [op |-> op, src |-> src, dst |-> dst]

\* save_checkpoint with the arguments a, on the files f and directories
\* ds: the files it leaves, the writes it made, what it raised or returned.
SaveCheckpoint(f, ds, a) ==
    LET checkpoint_path == Join(a.samples_dir, a.file_name)
        best_path == Join(a.results_dir, a.best_file_name)
        last_path == Join(a.results_dir, a.last_file_name)
        f1 == [f EXCEPT ![checkpoint_path] = a.state_dict]
        log1 == <<WriteOp("save", checkpoint_path, checkpoint_path)>>
        c2 == CopyFile(f1, ds, checkpoint_path, best_path)
        f2 == IF CopiesBest(a) THEN c2.fs ELSE f1
        log2 == IF CopiesBest(a) /\ c2.status = "returned"
                  THEN Append(log1, WriteOp("copy", checkpoint_path, best_path))
                  ELSE log1
        c3 == CopyFile(f2, ds, checkpoint_path, last_path)
    IN  IF a.samples_dir \notin ds
          THEN [status |-> "FileNotFoundError", fs |-> f, log |-> <<>>]
        ELSE IF CopiesBest(a) /\ c2.status # "returned"
          THEN [status |-> c2.status, fs |-> f1, log |-> log1]
        ELSE IF CopiesLast(a)
          THEN IF c3.status # "returned"
                 THEN [status |-> c3.status, fs |-> f2, log |-> log2]
                 ELSE [status |-> "returned", fs |-> c3.fs,
                       log |-> Append(log2, WriteOp("copy", checkpoint_path,
                                                    last_path))]
        ELSE [status |-> "returned", fs |-> f2, log |-> log2]

\* A call of save_checkpoint; the n-th call saves the state n.
SVCall(a) ==
    /\ sv_status = "none"
    /\ sv_count < MaxSaves
    /\ a.state_dict = sv_count + 1
    /\ LET r == SaveCheckpoint(fs, dirs, a) IN
         /\ fs' = r.fs
         /\ sv_log' = r.log
         /\ sv_status' = r.status
    /\ sv_args' = a
    /\ sv_count' = sv_count + 1
    /\ UNCHANGED dirs
    /\ UNCHANGED notSV

\* The caller moves on.
SVDone ==
    /\ sv_status # "none"
    /\ sv_status' = "none"
    /\ sv_args' = NoArgs
    /\ sv_log' = <<>>
    /\ UNCHANGED <<fs, dirs, sv_count>>
    /\ UNCHANGED notSV

SaveArgs ==
    [state_dict : 1..MaxSaves, file_name : FileNames, samples_dir : DirNames,
     results_dir : DirNames, best_file_name : FileNames,
     last_file_name : FileNames, is_best : BOOLEAN, is_last : BOOLEAN]

NextSV ==
    \/ \E d \in DirNames : MakeDirectory(d)
    \/ \E a \in SaveArgs : SVCall(a)
    \/ SVDone

InitSV ==
    RBParked /\ LRParked /\ AMParked /\ LDParked /\ RSParked /\ SVParked

SpecSV == InitSV /\ [][NextSV]_vars

\* ------------------------------------------------ save_checkpoint: claims

\* C8: for every is_best and is_last, a save_checkpoint call that returns
\* has first written samples_dir/file_name, then copied it to
\* results_dir/best_file_name if and only if is_best, then copied it to
\* results_dir/last_file_name if and only if is_last, each copy decided
\* without regard to the other flag; every file it did not write is as it
\* was and no directory was made.
C8_SaveWrites ==
    [][(sv_count' = sv_count + 1 /\ sv_status' = "returned") =>
        LET a == sv_args'
            p == <<a.samples_dir, a.file_name>>
            b == <<a.results_dir, a.best_file_name>>
            l == <<a.results_dir, a.last_file_name>>
            written == {p} \cup (IF a.is_best THEN {b} ELSE {})
                           \cup (IF a.is_last THEN {l} ELSE {})
        IN  /\ sv_log' =
                 <<WriteOp("save", p, p)>>
                 \o (IF a.is_best THEN <<WriteOp("copy", p, b)>> ELSE <<>>)
                 \o (IF a.is_last THEN <<WriteOp("copy", p, l)>> ELSE <<>>)
            /\ \A q \in written : fs'[q] = a.state_dict
            /\ \A q \in Paths \ written : fs'[q] = fs[q]
            /\ dirs' = dirs]_vars

\* C8 witness: a call with is_last and without is_best has returned, with
\* the best file of an earlier call still holding what that call saved.
C8_Witness ==
    /\ sv_status = "returned"
    /\ sv_args.is_last /\ ~sv_args.is_best
    /\ Len(sv_log) = 2
    /\ sv_args.best_file_name # sv_args.last_file_name
    /\ fs[<<sv_args.results_dir, sv_args.last_file_name>>] = sv_args.state_dict
    /\ fs[<<sv_args.results_dir, sv_args.best_file_name>>]
         \notin {0, sv_args.state_dict}

====
